---- MODULE Spec2Model ----
(***************************************************************************)
(* Model of the Kirg chat agent: src/main.py (KirgClient: the debounce and *)
(* concurrency coordinator, the proactivity scheduler, the send loop) and  *)
(* src/brain.py (KirgBrain: the two decision functions and their text      *)
(* post-processing).                                                       *)
(*                                                                         *)
(* Strings are sequences of tokens.  A token stands for a run of           *)
(* characters that the code never splits (a word, a tag, a quote           *)
(* character); markers that the code searches as substrings are spelled    *)
(* with more than one token, so that removing text between their parts can *)
(* create them.  Optional values are sequences of length at most one:      *)
(* None is << >> and a value v is << v >>.                                 *)
(***************************************************************************)
EXTENDS Integers, Sequences, FiniteSets, TLC

\* ------------------------------------------------------------------------
\* Strings
\* ------------------------------------------------------------------------

None == << >>

Some(v) == << v >>

\* str.lower() on one token.
LowerTok(t) ==
  CASE t = "Ana" -> "ana"
    [] t = "Bob" -> "bob"
    [] t = "Ian" -> "ian"
    [] t = "Kirg" -> "kirg"
    [] t = "SLK" -> "slk"
    [] t = "Oi" -> "oi"
    [] t = "[SK" -> "[sk"
    [] t = "IP]" -> "ip]"
    [] t = "<THINK>" -> "<think>"
    [] t = "</THINK>" -> "</think>"
    [] OTHER -> t

\* str.lower()
Lower(s) == [i \in 1..Len(s) |-> LowerTok(s[i])]

\* The characters str.strip() and str.split() treat as whitespace.
IsSpace(t) == t \in {" ", "\n"}

RECURSIVE LStrip(_)
LStrip(s) ==
  IF s = << >> THEN s
  ELSE IF IsSpace(Head(s)) THEN LStrip(Tail(s)) ELSE s

RECURSIVE RStrip(_)
RStrip(s) ==
  IF s = << >> THEN s
  ELSE IF IsSpace(s[Len(s)]) THEN RStrip(SubSeq(s, 1, Len(s) - 1)) ELSE s

\* str.strip()
Strip(s) == RStrip(LStrip(s))

\* sub in s
Contains(s, sub) ==
  \E i \in 1..(Len(s) - Len(sub) + 1) : SubSeq(s, i, i + Len(sub) - 1) = sub

\* s.replace(tok, "") for a one-character tok
RemoveTok(s, tok) == SelectSeq(s, LAMBDA t : t # tok)

\* The position of the first tok in s, 0 when there is none.
FirstIndex(s, tok) ==
  IF \E i \in 1..Len(s) : s[i] = tok
  THEN CHOOSE i \in 1..Len(s) : s[i] = tok /\ \A j \in 1..(i - 1) : s[j] # tok
  ELSE 0

\* s.split(sep) for a one-character sep: the pieces between the separators.
RECURSIVE SplitOn(_, _)
SplitOn(s, sep) ==
  LET i == FirstIndex(s, sep) IN
  IF i = 0 THEN << s >>
  ELSE << SubSeq(s, 1, i - 1) >> \o SplitOn(SubSeq(s, i + 1, Len(s)), sep)

\* s.split(): the maximal runs of non-whitespace characters.
RECURSIVE SplitWords(_)
SplitWords(s) ==
  LET t == LStrip(s) IN
  IF t = << >> THEN << >>
  ELSE LET ends == {i \in 1..Len(t) : IsSpace(t[i])}
           e == IF ends = {} THEN Len(t) + 1
                ELSE CHOOSE i \in ends : \A j \in ends : i <= j
       IN << SubSeq(t, 1, e - 1) >> \o SplitWords(SubSeq(t, e, Len(t)))

\* " ".join(words)
RECURSIVE JoinWords(_)
JoinWords(ws) ==
  IF ws = << >> THEN << >>
  ELSE IF Len(ws) = 1 THEN ws[1]
  ELSE ws[1] \o << " " >> \o JoinWords(Tail(ws))

\* The skip marker "[SKIP]", spelled with two tokens.
SkipMarker == << "[SK", "IP]" >>

\* The tag name a <think>/<thought> token opens or closes, lowercased.
IsOpenTag(t) == t \in {"<think>", "<THINK>", "<thought>"}

IsCloseTag(t) == t \in {"</think>", "</THINK>", "</thought>"}

TagName(t) == IF t \in {"<thought>", "</thought>"} THEN "thought" ELSE "think"

\* re.sub(r'<(think|thought)>.*?</\1>', '', s, flags=DOTALL|IGNORECASE):
\* leftmost matches, each ending at the nearest closing tag of the same name.
RECURSIVE StripThink(_)
StripThink(s) ==
  IF s = << >> THEN s
  ELSE
    LET h == Head(s)
        closes == {j \in 2..Len(s) :
                     IsCloseTag(s[j]) /\ TagName(s[j]) = TagName(h)}
    IN IF IsOpenTag(h) /\ closes # {}
       THEN LET j == CHOOSE k \in closes : \A m \in closes : k <= m
            IN StripThink(SubSeq(s, j + 1, Len(s)))
       ELSE << h >> \o StripThink(Tail(s))

\* .replace('"', '').replace("'", "")
StripQuotes(s) == RemoveTok(RemoveTok(s, "\""), "'")

\* ------------------------------------------------------------------------
\* KirgBrain (src/brain.py)
\* ------------------------------------------------------------------------

\* What the completion provider does with one request: it raises, no
\* provider is configured, or it returns a text.
ProviderError == [kind |-> "error", text |-> << >>]

ProviderUnconfigured == [kind |-> "unconfigured", text |-> << >>]

ProviderText(s) == [kind |-> "text", text |-> s]

\* _generate_response with an except clause that answers a canned text.
GenerateResponse_Canned(outcome) ==
  IF outcome.kind = "text" THEN << RStrip(LStrip(outcome.text)) >>
  ELSE << << "slk" >> >>

\* _generate_response: the provider's text stripped; None when the call
\* raises (the except clause) or no provider is configured.
GenerateResponse(outcome) ==
  IF outcome.kind = "text" THEN Some(Strip(outcome.text)) ELSE None

\* Python's truth value of an Optional[str]: None and "" are false.
Truthy(opt) == opt # None /\ opt[1] # << >>

\* The canned line decide_proactive_message falls back to.
FALLBACK_LINE == << "slk", " ", "que", " ", "tedio" >>

common_slang ==
  { << "intankavel" >>, << "slk" >>, << "fds" >>, << "mid" >>, << "peak" >> }

\* The history's speakers and its contents, lowercased and stripped.
ActiveUsers(chat_history) ==
  {chat_history[i].author : i \in 1..Len(chat_history)}

RecentContents(chat_history) ==
  {Strip(Lower(chat_history[i].content)) : i \in 1..Len(chat_history)}

\* A filter that takes the prefix off every participant's line and keeps
\* the rest.
FilterPrefix_KeepsRest(line, active_users, my_name) ==
  LET c == FirstIndex(line, ":") IN
  IF c = 0 THEN << line >>
  ELSE
    LET name_part == Lower(Strip(SubSeq(line, 1, c - 1)))
        rest == Strip(SubSeq(line, c + 1, Len(line)))
    IN IF name_part = Lower(my_name)
          \/ name_part \in {Lower(u) : u \in active_users}
       THEN << rest >>
       ELSE << line >>

\* The hallucinated-history filter: None when the line is another
\* participant's turn, the line without its prefix when the prefix is the
\* bot's own name, the line itself otherwise.
FilterPrefix(line, active_users, my_name) ==
  LET c == FirstIndex(line, ":") IN
  IF c = 0 THEN Some(line)
  ELSE
    LET name_part == Lower(Strip(SubSeq(line, 1, c - 1)))
        rest == Strip(SubSeq(line, c + 1, Len(line)))
    IN IF name_part = Lower(my_name) THEN Some(rest)
       ELSE IF name_part \in {Lower(u) : u \in active_users} THEN None
       ELSE Some(line)

\* The slang deduplication of one line's words: a word whose lowercased
\* form without '.' and ',' is a slang word already seen in the line is
\* dropped.
RECURSIVE DedupSlang(_, _)
DedupSlang(words, seen_slang) ==
  IF words = << >> THEN << >>
  ELSE
    LET w == Head(words)
        wc == RemoveTok(RemoveTok(Lower(w), "."), ",")
    IN IF wc \in common_slang
       THEN IF wc \in seen_slang THEN DedupSlang(Tail(words), seen_slang)
            ELSE << w >> \o DedupSlang(Tail(words), seen_slang \cup {wc})
       ELSE << w >> \o DedupSlang(Tail(words), seen_slang)

\* The body of the loop without the test of line 157: a line that was
\* accepted before is accepted again.
AcceptLine_NoDedup(valid_msgs, raw_line, active_users, my_name, recent_contents) ==
  LET line == Strip(raw_line) IN
  IF line = << >> \/ Contains(line, SkipMarker) THEN valid_msgs
  ELSE
    LET kept == FilterPrefix(line, active_users, my_name) IN
    IF kept = None THEN valid_msgs
    ELSE IF Strip(Lower(kept[1])) \in recent_contents THEN valid_msgs
    ELSE
      LET line_clean ==
            StripQuotes(JoinWords(DedupSlang(SplitWords(kept[1]), {})))
      IN IF line_clean = << >> THEN valid_msgs
         ELSE Append(valid_msgs, line_clean)

\* The body of the loop over the lines: valid_msgs after one more line.
AcceptLine(valid_msgs, raw_line, active_users, my_name, recent_contents) ==
  LET line == Strip(raw_line) IN
  IF line = << >> \/ Contains(line, SkipMarker) THEN valid_msgs
  ELSE
    LET kept == FilterPrefix(line, active_users, my_name) IN
    IF kept = None THEN valid_msgs
    ELSE IF Strip(Lower(kept[1])) \in recent_contents THEN valid_msgs
    ELSE
      LET line_clean ==
            StripQuotes(JoinWords(DedupSlang(SplitWords(kept[1]), {})))
      IN IF line_clean = << >> THEN valid_msgs
         ELSE IF \E i \in 1..Len(valid_msgs) :
                   Lower(valid_msgs[i]) = Lower(line_clean)
              THEN valid_msgs
         ELSE Append(valid_msgs, line_clean)

RECURSIVE AcceptLines(_, _, _, _, _)
AcceptLines(valid_msgs, lines, active_users, my_name, recent_contents) ==
  IF lines = << >> THEN valid_msgs
  ELSE AcceptLines(
         AcceptLine(valid_msgs, Head(lines), active_users, my_name,
                    recent_contents),
         Tail(lines), active_users, my_name, recent_contents)

\* decide_and_respond, given what the provider did: None or a list of lines.
\* is_direct only changes the prompt.
decide_and_respond(chat_history, my_name, is_direct, outcome) ==
  LET generated == GenerateResponse(outcome) IN
  IF ~Truthy(generated) THEN None
  ELSE
    LET response == Strip(StripThink(generated[1])) IN
    IF Contains(response, SkipMarker) THEN None
    ELSE
      LET valid_msgs ==
            AcceptLines(<< >>, SplitOn(response, "\n"),
                        ActiveUsers(chat_history), my_name,
                        RecentContents(chat_history))
      IN IF valid_msgs = << >> THEN None
         ELSE Some(SubSeq(valid_msgs, 1,
                          IF Len(valid_msgs) < 3 THEN Len(valid_msgs) ELSE 3))

\* decide_proactive_message, given what the provider did: always a list.
\* The history only enters the prompt.
decide_proactive_message(chat_history, my_name, outcome) ==
  LET generated == GenerateResponse(outcome) IN
  IF ~Truthy(generated) \/ Contains(generated[1], SkipMarker)
  THEN << FALLBACK_LINE >>
  ELSE << Lower(StripQuotes(Strip(StripThink(generated[1])))) >>

\* ------------------------------------------------------------------------
\* Bounds of the model
\* ------------------------------------------------------------------------

\* The number of gateway messages handled in one behaviour.
MaxMsgs == 2

\* The last instant of the clock.
MaxTime == 2

\* The shortest and the longest interval _schedule_next_proactivity draws,
\* in clock units (random.uniform over DEMO_PROACTIVITY_RANGE_MINUTES).
MinInterval == 1

MaxInterval == 2

Intervals == MinInterval..MaxInterval

\* ------------------------------------------------------------------------
\* KirgClient (src/main.py): constants, users and messages
\* ------------------------------------------------------------------------

HISTORY_LIMIT == 12

\* The tracked channel's id and the memory key of a user's DM thread.
Chan == << "channel", "100" >>

DmKey(user) == << "dm", user.id >>

\* The task id of the proactivity loop; the handler of the n-th gateway
\* message has task id n.
LoopTask == 0

\* Users.  display_name is the guild nick, else the global name, else the
\* user name (discord's Member.display_name).
UAna == [id |-> "1", name |-> << "ana" >>, global_name |-> Some(<< "Ana" >>),
         nick |-> None]

UBob == [id |-> "2", name |-> << "bob99" >>, global_name |-> None,
         nick |-> Some(<< "Bob" >>)]

Users == {UAna, UBob}

DisplayName(user) ==
  IF user.nick # None THEN user.nick[1]
  ELSE IF user.global_name # None THEN user.global_name[1]
  ELSE user.name

\* user.mention
Mention(user) ==
  CASE user.id = "0" -> << "<@0>" >>
    [] user.id = "1" -> << "<@1>" >>
    [] user.id \in {"3", "4", "5"} -> << "<@", user.id, ">" >>
    [] OTHER -> << "<@2>" >>

\* The messages the gateway delivers in the tracked channel: a plain one and
\* one that mentions the bot (is_direct; a reply to the bot sets it too).
ChannelMessages ==
  { [author |-> UAna, content |-> << "oi" >>,
     mentions_me |-> FALSE, reply_to_me |-> FALSE],
    [author |-> UBob, content |-> << "<@0>", " ", "kkk" >>,
     mentions_me |-> TRUE, reply_to_me |-> FALSE] }

\* The direct messages the gateway delivers (the author has no guild nick).
DmMessages ==
  { [author |-> [UAna EXCEPT !.nick = None], content |-> << "oi" >>,
     mentions_me |-> FALSE, reply_to_me |-> FALSE] }

\* What the provider answers in the coordinator's behaviours.
ProviderOutcomes ==
  { ProviderError,
    ProviderText(<< "<think>", "hm", "</think>" >>),
    ProviderText(<< "fds", "\n", "Bob", " ", "mid" >>) }

\* The number of characters of a token, for the tokens aliases are made of.
TokLen(t) ==
  CASE t \in {"ana", "bob", "ian"} -> 3
    [] t = "kirg" -> 4
    [] t = "bob99" -> 5
    [] t = "zinho" -> 5
    [] t = "tres" -> 4
    [] OTHER -> 1

RECURSIVE CharLen(_)
CharLen(s) == IF s = << >> THEN 0 ELSE TokLen(Head(s)) + CharLen(Tail(s))


\* ------------------------------------------------------------------------
\* KirgClient: state
\* ------------------------------------------------------------------------

VARIABLES
  now,                      \* what time.time() returns
  bot_nick,                 \* the bot's nick in the guild (Optional), fixed
  target_channel_id,        \* Optional channel id
  me_user,                  \* Optional user
  chat_memories,            \* dict: memory key -> deque of entries
  processing_lock,          \* asyncio.Lock: locked flag, FIFO of waiting tasks
  known_users,              \* dict in insertion order: alias -> mention
  channel_debounces,        \* dict: channel id -> latest this_msg_time
  channel_mentions_pending, \* dict: channel id -> BOOLEAN
  next_activity_trigger,    \* the proactivity deadline
  on_ready_pc,              \* where on_ready is: "init", "preload", "done"
  tasks,                    \* task id -> the task's locals and position
  event,                    \* observation: the step just taken
  last_delivery,            \* observation: the latest delivery attempt of
                            \* the cycle that is running
  b_pc, b_history, b_outcome, b_result  \* one call of a decision function

coordVars ==
  << now, bot_nick, target_channel_id, me_user, chat_memories,
     processing_lock, known_users, channel_debounces,
     channel_mentions_pending, next_activity_trigger, on_ready_pc, tasks,
     event, last_delivery >>

brainVars == << b_pc, b_history, b_outcome, b_result >>

vars == << coordVars, brainVars >>

\* dict.get(k, default) and d[k] = v
DictGet(d, k, default) == IF k \in DOMAIN d THEN d[k] ELSE default

DictSet(d, k, v) == [x \in DOMAIN d \cup {k} |-> IF x = k THEN v ELSE d[x]]

\* A deque without maxlen.
DequeAppend_Unbounded(d, e) == Append(d, e)

\* deque(maxlen=HISTORY_LIMIT).append(e)
DequeAppend(d, e) ==
  IF Len(d) < HISTORY_LIMIT THEN Append(d, e) ELSE Append(Tail(d), e)

\* One memory entry: the pair (speaker, text).  src is not part of the
\* program's state: it names the message or the task the entry came from.
Entry(author, content, src) ==
  [author |-> author, content |-> content, src |-> src]

\* The bot's own account as a guild member, and its two display names:
\* me_user.display_name (the account's) and guild.me.display_name.
BotMember ==
  [id |-> "0", name |-> << "ian" >>, global_name |-> Some(<< "Ian" >>),
   nick |-> bot_nick]

AccountDisplayName == DisplayName([BotMember EXCEPT !.nick = None])

GuildDisplayName == DisplayName(BotMember)

\* known_users[k] = mention, keeping the dict's insertion order.
RememberKey(ku, k, mention) ==
  IF \E i \in 1..Len(ku) : ku[i].alias = k
  THEN [i \in 1..Len(ku) |->
          IF ku[i].alias = k THEN [alias |-> k, mention |-> mention]
          ELSE ku[i]]
  ELSE Append(ku, [alias |-> k, mention |-> mention])

\* The keys _remember_user maps to the user's mention.
UserKeys(user) ==
  LET k1 == << Lower(user.name) >>
      k2 == IF Lower(DisplayName(user)) # Lower(user.name)
            THEN Append(k1, Lower(DisplayName(user))) ELSE k1
  IN IF user.nick # None
        /\ ~\E i \in 1..Len(k2) : k2[i] = Lower(user.nick[1])
     THEN Append(k2, Lower(user.nick[1])) ELSE k2

RECURSIVE RememberKeys(_, _, _)
RememberKeys(ku, keys, mention) ==
  IF keys = << >> THEN ku
  ELSE RememberKeys(RememberKey(ku, Head(keys), mention), Tail(keys), mention)

\* _remember_user (the accounts here are user accounts: user.bot is false)
RememberUser(ku, user) == RememberKeys(ku, UserKeys(user), Mention(user))

\* get_real_name's result for a guild message: the nick, else display_name.
RealName(author) ==
  IF author.nick # None THEN author.nick[1] ELSE DisplayName(author)

\* content.replace(f"<@{self.user.id}>", "@Me")
CleanContent(content) ==
  [i \in 1..Len(content) |-> IF content[i] = "<@0>" THEN "@Me" ELSE content[i]]

\* text with every case-insensitive occurrence of alias replaced by mention
\* (re.compile(re.escape(name), re.IGNORECASE).sub(mention, text)).
RECURSIVE ReplaceAll(_, _, _)
ReplaceAll(text, alias, mention) ==
  IF Len(text) < Len(alias) THEN text
  ELSE IF Lower(SubSeq(text, 1, Len(alias))) = alias
       THEN mention \o ReplaceAll(SubSeq(text, Len(alias) + 1, Len(text)),
                                  alias, mention)
       ELSE << Head(text) >> \o ReplaceAll(Tail(text), alias, mention)

\* sorted(keys, key=len, reverse=True): a stable sort, longest first.
RECURSIVE SortedNames(_)
SortedNames(ku) ==
  IF ku = << >> THEN << >>
  ELSE
    LET longest == CHOOSE i \in 1..Len(ku) :
                     /\ \A j \in 1..Len(ku) :
                          CharLen(ku[j].alias) <= CharLen(ku[i].alias)
                     /\ \A j \in 1..(i - 1) :
                          CharLen(ku[j].alias) < CharLen(ku[i].alias)
    IN << ku[longest] >>
       \o SortedNames(SubSeq(ku, 1, longest - 1)
                      \o SubSeq(ku, longest + 1, Len(ku)))

RECURSIVE ReplaceNames(_, _)
ReplaceNames(text, names) ==
  IF names = << >> THEN text
  ELSE ReplaceNames(
         IF Contains(Lower(text), Head(names).alias)
         THEN ReplaceAll(text, Head(names).alias, Head(names).mention)
         ELSE text,
         Tail(names))

\* _format_mentions
FormatMentions(text) ==
  IF text = << >> THEN text ELSE ReplaceNames(text, SortedNames(known_users))

\* ------------------------------------------------------------------------
\* asyncio.Lock
\* ------------------------------------------------------------------------

\* Lock.release() clears the flag and resolves the future of the first
\* waiter; that waiter sets the flag again only when the event loop resumes
\* it (LockGranted).  Until then the lock reads unlocked, and acquire()
\* takes the lock at once only when no waiter is queued.
Locked(lock) == lock.locked

CanAcquireNow(lock) == ~lock.locked /\ lock.waiters = << >>

\* An acquire that leaves the lock free.
LockAcquired_Free(lock) == lock

LockAcquired(lock) == [lock EXCEPT !.locked = TRUE]

\* A release that leaves the lock held.
LockReleased_Held(lock) == lock

LockReleased(lock) == [lock EXCEPT !.locked = FALSE]

LockQueued(lock, t) == [lock EXCEPT !.waiters = Append(@, t)]


\* ------------------------------------------------------------------------
\* KirgClient: tasks
\* ------------------------------------------------------------------------

NoMsg ==
  [author |-> [id |-> "0", name |-> << "ian" >>, global_name |-> None,
               nick |-> None],
   content |-> << >>, mentions_me |-> FALSE, reply_to_me |-> FALSE]

\* The locals of a task.  kind: "loop" (proactivity_loop), "chan" (on_message
\* in the tracked channel), "dm" (_handle_dm).  A handler that returns at
\* once (lines 199-211) leaves no task.
\* pc: "notstarted", "sleep" (the loop's asyncio.sleep(30)), "reading" (the
\* reading delay), "lock" (waiting in the lock's acquire), "deciding" (the
\* provider call), "sending" (in _send_response_package, before line i),
\* "done".  path and later_inbound are observations: how the handler ended,
\* and whether a message of the tracked channel arrived during its reading
\* delay.
NewTask(kind, msg, pc, path) ==
  [kind |-> kind, msg |-> msg, pc |-> pc, path |-> path,
   later_inbound |-> FALSE,
   this_msg_time |-> 0, is_direct |-> FALSE, history_list |-> << >>,
   my_name |-> << >>, memory_id |-> Chan, reply_to |-> FALSE,
   response |-> << >>, i |-> 0]

\* A task whose coroutine has returned, and the loop back in its sleep.
Ended(task, path) ==
  IF task.kind = "loop" THEN NewTask("loop", NoMsg, "sleep", path)
  ELSE NewTask(task.kind, NoMsg, "done", path)

NumMsgs == Cardinality(DOMAIN tasks) - 1

Handlers == DOMAIN tasks \ {LoopTask}

\* The positions of a task inside a decision-and-send cycle.
InCycle(task) == task.pc \in {"deciding", "sending"}

Ev(name, t, note) ==
  [name |-> name, task |-> t, note |-> note, out |-> ProviderUnconfigured,
   direct |-> FALSE]

NoDelivery == [task |-> LoopTask, i |-> 0]

\* is_direct of on_message
IsDirect(msg) == msg.mentions_me \/ msg.reply_to_me

\* _schedule_next_proactivity: the deadlines it can draw
NextTriggers == {now + m : m \in Intervals}

CoordInit(nick) ==
  /\ now = 0
  /\ bot_nick = nick
  /\ target_channel_id = None
  /\ me_user = None
  /\ chat_memories = << >>
  /\ processing_lock = [locked |-> FALSE, waiters |-> << >>]
  /\ known_users = << >>
  /\ channel_debounces = << >>
  /\ channel_mentions_pending = << >>
  /\ next_activity_trigger \in NextTriggers
  /\ on_ready_pc = "init"
  /\ tasks = (LoopTask :> NewTask("loop", NoMsg, "notstarted", ""))
  /\ event = Ev("init", LoopTask, "")
  /\ last_delivery = NoDelivery

BrainIdle ==
  /\ b_pc = "idle"
  /\ b_history = << >>
  /\ b_outcome = ProviderUnconfigured
  /\ b_result = None

Init == CoordInit(None) /\ BrainIdle

\* The clock advances.
AdvanceTime ==
  /\ now < MaxTime
  /\ now' = now + 1
  /\ event' = Ev("time", LoopTask, "")
  /\ UNCHANGED << bot_nick, target_channel_id, me_user, chat_memories,
                  processing_lock, known_users, channel_debounces,
                  channel_mentions_pending, next_activity_trigger,
                  on_ready_pc, tasks, last_delivery >>

\* on_ready up to the history fetch of preload_history: setup_channel picks
\* the channel when config.json lists one.
OnReady(configured) ==
  /\ on_ready_pc = "init"
  /\ me_user' = Some([BotMember EXCEPT !.nick = None])
  /\ IF configured
     THEN /\ target_channel_id' = Some(Chan)
          /\ on_ready_pc' = "preload"
          /\ tasks' = tasks
     ELSE /\ target_channel_id' = target_channel_id
          /\ on_ready_pc' = "done"
          /\ tasks' = [tasks EXCEPT ![LoopTask].pc = "sleep"]
  /\ event' = Ev("on_ready", LoopTask, "")
  /\ UNCHANGED << now, bot_nick, chat_memories, processing_lock, known_users,
                  channel_debounces, channel_mentions_pending,
                  next_activity_trigger, last_delivery >>

\* What channel.history(limit=HISTORY_LIMIT) yields, newest message first.
FetchedHistories ==
  { << [author |-> BotMember, content |-> << "fds" >>],
       [author |-> UAna, content |-> << "oi" >>] >> }

Reversed(s) == [i \in 1..Len(s) |-> s[Len(s) + 1 - i]]

RECURSIVE PreloadEntries(_, _)
PreloadEntries(deque, msgs) ==
  IF msgs = << >> THEN deque
  ELSE PreloadEntries(
         DequeAppend(deque, Entry(RealName(Head(msgs).author),
                                  Head(msgs).content,
                                  [from |-> "preload", task |-> LoopTask])),
         Tail(msgs))

RECURSIVE PreloadUsers(_, _)
PreloadUsers(ku, msgs) ==
  IF msgs = << >> THEN ku
  ELSE PreloadUsers(RememberUser(ku, Head(msgs).author), Tail(msgs))

\* preload_history from the point where the fetch returns (fetched is None
\* when the channel is not found or the fetch raises), then the rest of
\* on_ready: the proactivity loop starts.
PreloadDone(fetched) ==
  /\ on_ready_pc = "preload"
  /\ IF fetched = None
     THEN UNCHANGED << chat_memories, known_users >>
     ELSE /\ chat_memories' =
               DictSet(chat_memories, Chan,
                       PreloadEntries(<< >>, Reversed(fetched[1])))
          /\ known_users' = PreloadUsers(known_users, Reversed(fetched[1]))
  /\ on_ready_pc' = "done"
  /\ tasks' = [tasks EXCEPT ![LoopTask].pc = "sleep"]
  /\ event' = Ev("preload", LoopTask, IF fetched = None THEN "failed" ELSE "")
  /\ UNCHANGED << now, bot_nick, target_channel_id, me_user, processing_lock,
                  channel_debounces, channel_mentions_pending,
                  next_activity_trigger, last_delivery >>

\* ------------------------------------------------------------------------
\* The three cycles, from the point where the lock is acquired to the
\* provider call.  base is tasks with the task's record in it and lk the
\* lock once acquired.
\* ------------------------------------------------------------------------

\* on_message, lines 246-252: consume the pending-direct flag, copy the
\* history, call the provider in a thread.
BeginReactive(base, t, lk) ==
  LET mention_was_pending == DictGet(channel_mentions_pending, Chan, FALSE)
  IN /\ channel_mentions_pending' = DictSet(channel_mentions_pending, Chan, FALSE)
     /\ processing_lock' = lk
     /\ tasks' = [base EXCEPT ![t] =
                    [@ EXCEPT !.pc = "deciding",
                              !.is_direct = mention_was_pending,
                              !.history_list = DictGet(chat_memories, Chan, << >>),
                              !.my_name = GuildDisplayName,
                              !.memory_id = Chan,
                              !.reply_to = mention_was_pending]]
     /\ UNCHANGED << chat_memories, next_activity_trigger >>

\* _handle_dm, lines 261-269: append the message to the DM memory, sleep
\* (the lock is held, nothing else writes this memory), copy the history,
\* call the provider in a thread.
BeginDm(base, t, lk) ==
  LET msg == base[t].msg
      dm_key == DmKey(msg.author)
      deque == DequeAppend(DictGet(chat_memories, dm_key, << >>),
                           Entry(msg.author.name, msg.content,
                                 [from |-> "msg", task |-> t]))
  IN /\ chat_memories' = DictSet(chat_memories, dm_key, deque)
     /\ processing_lock' = lk
     /\ tasks' = [base EXCEPT ![t] =
                    [@ EXCEPT !.pc = "deciding",
                              !.is_direct = TRUE,
                              !.history_list = deque,
                              !.my_name = << "Ian" >>,
                              !.memory_id = dm_key,
                              !.reply_to = TRUE]]
     /\ UNCHANGED << channel_mentions_pending, next_activity_trigger >>

\* proactivity_loop, lines 89-95 (and 101 when get_channel finds no
\* channel): copy the history, call the provider in a thread.
BeginProactive(base, lk, channel_found, trigger) ==
  IF channel_found
  THEN /\ processing_lock' = lk
       /\ tasks' = [base EXCEPT ![LoopTask] =
                      [@ EXCEPT !.pc = "deciding",
                                !.history_list = DictGet(chat_memories, Chan, << >>),
                                !.my_name = DisplayName(me_user[1]),
                                !.memory_id = Chan,
                                !.reply_to = FALSE]]
       /\ UNCHANGED << chat_memories, channel_mentions_pending,
                       next_activity_trigger >>
  ELSE /\ processing_lock' = LockReleased(lk)
       /\ tasks' = [base EXCEPT ![LoopTask] = Ended(@, "nochannel")]
       /\ next_activity_trigger' = trigger
       /\ UNCHANGED << chat_memories, channel_mentions_pending >>

\* ------------------------------------------------------------------------
\* on_message
\* ------------------------------------------------------------------------

\* A message of the bot itself: line 199.
OnMessageOwn ==
  /\ UNCHANGED << now, event, bot_nick, target_channel_id, me_user, chat_memories,
                  processing_lock, known_users, channel_debounces,
                  channel_mentions_pending, next_activity_trigger,
                  on_ready_pc, tasks, last_delivery >>

\* A guild message in a channel that is not the tracked one: line 207.
OnMessageElsewhere ==
  /\ UNCHANGED << now, event, bot_nick, target_channel_id, me_user, chat_memories,
                  processing_lock, known_users, channel_debounces,
                  channel_mentions_pending, next_activity_trigger,
                  on_ready_pc, tasks, last_delivery >>

\* A direct message: _handle_dm waits for the lock.
OnMessageDm(msg) ==
  LET t == NumMsgs + 1 IN
  /\ NumMsgs < MaxMsgs
  /\ IF CanAcquireNow(processing_lock)
     THEN BeginDm(tasks @@ (t :> NewTask("dm", msg, "deciding", "")), t,
                  LockAcquired(processing_lock))
     ELSE /\ tasks' = tasks @@ (t :> NewTask("dm", msg, "lock", ""))
          /\ processing_lock' = LockQueued(processing_lock, t)
          /\ UNCHANGED << chat_memories, channel_mentions_pending,
                          next_activity_trigger >>
  /\ event' = Ev("message", t, "dm")
  /\ UNCHANGED << now, bot_nick, target_channel_id, me_user, known_users,
                  channel_debounces, on_ready_pc, last_delivery >>

\* tasks with the handlers that are in their reading delay marked: a message
\* of the tracked channel has arrived meanwhile.
MarkReaders(ts) ==
  [u \in DOMAIN ts |->
     IF ts[u].pc = "reading" THEN [ts[u] EXCEPT !.later_inbound = TRUE]
     ELSE ts[u]]

\* A message of channel Chan by another user: on_message from line 207 to
\* the reading delay.  Two handlers never read the same time.time().
OnMessageChannel(msg, trigger) ==
  LET t == NumMsgs + 1 IN
  /\ IF target_channel_id # Some(Chan)
     THEN UNCHANGED << event, known_users, chat_memories, next_activity_trigger,
                     channel_mentions_pending, channel_debounces, tasks >>
     ELSE IF Locked(processing_lock)
     THEN /\ event' = [Ev("message", LoopTask, "ignored")
                         EXCEPT !.direct = IsDirect(msg)]
          /\ tasks' = MarkReaders(tasks)
          /\ UNCHANGED << known_users, chat_memories, next_activity_trigger,
                          channel_mentions_pending, channel_debounces >>
     ELSE /\ NumMsgs < MaxMsgs
          /\ DictGet(channel_debounces, Chan, -1) < now
          /\ known_users' = RememberUser(known_users, msg.author)
          /\ chat_memories' =
               DictSet(chat_memories, Chan,
                       DequeAppend(DictGet(chat_memories, Chan, << >>),
                                   Entry(RealName(msg.author),
                                         CleanContent(msg.content),
                                         [from |-> "msg", task |-> t])))
          /\ next_activity_trigger' = trigger
          /\ channel_mentions_pending' =
               IF IsDirect(msg)
               THEN DictSet(channel_mentions_pending, Chan, TRUE)
               ELSE channel_mentions_pending
          /\ channel_debounces' = DictSet(channel_debounces, Chan, now)
          /\ tasks' = MarkReaders(tasks)
                        @@ (t :> [NewTask("chan", msg, "reading", "")
                                    EXCEPT !.this_msg_time = now])
          /\ event' = [Ev("message", t, "accepted")
                         EXCEPT !.direct = IsDirect(msg)]
  /\ UNCHANGED << now, bot_nick, target_channel_id, me_user, processing_lock,
                  on_ready_pc, last_delivery >>

\* on_message without the locked() test of line 242: a busy lock is waited for.
AfterReadingDelay_Queues(t) ==
  IF DictGet(channel_debounces, Chan, -1) # tasks[t].this_msg_time
  THEN "superseded"
  ELSE "acquire"

\* What on_message does when its reading delay has elapsed: lines 239-245.
AfterReadingDelay(t) ==
  IF DictGet(channel_debounces, Chan, -1) # tasks[t].this_msg_time
  THEN "superseded"
  ELSE IF Locked(processing_lock) THEN "busy"
  ELSE "acquire"

\* The reading delay of handler t elapses.
ReadingDelayElapsed(t) ==
  /\ tasks[t].pc = "reading"
  /\ LET verdict == AfterReadingDelay(t) IN
     IF verdict = "acquire"
     THEN IF CanAcquireNow(processing_lock)
          THEN BeginReactive(tasks, t, LockAcquired(processing_lock))
          ELSE /\ tasks' = [tasks EXCEPT ![t].pc = "lock"]
               /\ processing_lock' = LockQueued(processing_lock, t)
               /\ UNCHANGED << chat_memories, channel_mentions_pending,
                               next_activity_trigger >>
     ELSE /\ tasks' = [tasks EXCEPT ![t] = Ended(@, verdict)]
          /\ UNCHANGED << processing_lock, chat_memories,
                          channel_mentions_pending, next_activity_trigger >>
  /\ event' = Ev("wake", t, AfterReadingDelay(t))
  /\ UNCHANGED << now, bot_nick, target_channel_id, me_user, known_users,
                  channel_debounces, on_ready_pc, last_delivery >>

\* The event loop resumes the first waiter of the released lock: it takes
\* the lock and runs its cycle.
LockGranted(channel_found, trigger) ==
  /\ ~processing_lock.locked
  /\ processing_lock.waiters # << >>
  /\ LET t == Head(processing_lock.waiters)
         lk == LockAcquired([processing_lock EXCEPT !.waiters = Tail(@)])
     IN /\ CASE tasks[t].kind = "chan" -> BeginReactive(tasks, t, lk)
              [] tasks[t].kind = "dm" -> BeginDm(tasks, t, lk)
              [] OTHER -> BeginProactive(tasks, lk, channel_found, trigger)
        /\ event' = Ev("granted", t, "")
  /\ UNCHANGED << now, bot_nick, target_channel_id, me_user, known_users,
                  channel_debounces, on_ready_pc, last_delivery >>

\* ------------------------------------------------------------------------
\* The decision and the send loop
\* ------------------------------------------------------------------------

\* The decision function the task's cycle calls, as an Optional list.
Decision(task, outcome) ==
  IF task.kind = "loop"
  THEN Some(decide_proactive_message(task.history_list, task.my_name, outcome))
  ELSE decide_and_respond(task.history_list, task.my_name, task.is_direct,
                          outcome)

\* "if response:" for an Optional list
HasResponse(decision) == decision # None /\ decision[1] # << >>

\* The lock and the locals of task t when its cycle ends: the "async with"
\* block is left, and the loop goes back to its sleep.
CycleEnds(t, path) ==
  /\ processing_lock' = LockReleased(processing_lock)
  /\ tasks' = [tasks EXCEPT ![t] = Ended(@, path)]
  /\ last_delivery' = NoDelivery

\* The provider call of task t returns: the decision is taken, and the
\* cycle ends when there is nothing to send.
ProviderReturns(t, outcome) ==
  /\ tasks[t].pc = "deciding"
  /\ LET decision == Decision(tasks[t], outcome) IN
     IF HasResponse(decision)
     THEN /\ tasks' = [tasks EXCEPT ![t] =
                         [@ EXCEPT !.pc = "sending",
                                   !.response = decision[1], !.i = 1]]
          /\ event' = [Ev("decided", t, "lines") EXCEPT !.out = outcome]
          /\ UNCHANGED << processing_lock, last_delivery >>
     ELSE /\ CycleEnds(t, "none")
          /\ event' = [Ev("decided", t, "none") EXCEPT !.out = outcome]
  /\ UNCHANGED << now, bot_nick, target_channel_id, me_user, chat_memories,
                  known_users, channel_debounces, channel_mentions_pending,
                  next_activity_trigger, on_ready_pc >>

\* A send loop whose except clause is outside the loop: a delivery that
\* fails ends the loop and the cycle.
SendLine_FailureEscapes(t, delivered, trigger) ==
  /\ tasks[t].pc = "sending"
  /\ LET task == tasks[t]
         line == task.response[task.i]
         formatted_line == FormatMentions(line)
     IN /\ delivered => formatted_line # << >>
        /\ chat_memories' =
             IF delivered /\ task.memory_id \in DOMAIN chat_memories
             THEN [chat_memories EXCEPT ![task.memory_id] =
                     DequeAppend(@, Entry(task.my_name, line,
                                          [from |-> "bot", task |-> t]))]
             ELSE chat_memories
        /\ IF delivered /\ task.i < Len(task.response)
           THEN /\ tasks' = [tasks EXCEPT ![t].i = @ + 1]
                /\ last_delivery' = [task |-> t, i |-> task.i]
                /\ UNCHANGED << processing_lock, next_activity_trigger >>
           ELSE /\ CycleEnds(t, "sent")
                /\ next_activity_trigger' =
                     IF t = LoopTask THEN trigger ELSE next_activity_trigger
        /\ event' = Ev("send", t, IF delivered THEN "ok" ELSE "failed")
  /\ UNCHANGED << now, bot_nick, target_channel_id, me_user, known_users,
                  channel_debounces, channel_mentions_pending, on_ready_pc >>

\* One round of _send_response_package's loop, from the end of the typing
\* delay: line i is delivered (delivered is false when reply or send raises;
\* the gateway rejects an empty text) and then appended to the memory; a
\* missing memory raises KeyError, which the same except clause swallows.
\* After the last line the cycle ends; the proactivity loop then draws the
\* next deadline (line 101).
SendLine(t, delivered, trigger) ==
  /\ tasks[t].pc = "sending"
  /\ LET task == tasks[t]
         line == task.response[task.i]
         formatted_line == FormatMentions(line)
     IN /\ delivered => formatted_line # << >>
        /\ chat_memories' =
             IF delivered /\ task.memory_id \in DOMAIN chat_memories
             THEN [chat_memories EXCEPT ![task.memory_id] =
                     DequeAppend(@, Entry(task.my_name, line,
                                          [from |-> "bot", task |-> t]))]
             ELSE chat_memories
        /\ IF task.i < Len(task.response)
           THEN /\ tasks' = [tasks EXCEPT ![t].i = @ + 1]
                /\ last_delivery' = [task |-> t, i |-> task.i]
                /\ UNCHANGED << processing_lock, next_activity_trigger >>
           ELSE /\ CycleEnds(t, "sent")
                /\ next_activity_trigger' =
                     IF t = LoopTask THEN trigger ELSE next_activity_trigger
        /\ event' = Ev("send", t, IF delivered THEN "ok" ELSE "failed")
  /\ UNCHANGED << now, bot_nick, target_channel_id, me_user, known_users,
                  channel_debounces, channel_mentions_pending, on_ready_pc >>

\* ------------------------------------------------------------------------
\* proactivity_loop
\* ------------------------------------------------------------------------

\* Lines 77-83: the last entry of the tracked memory is by my_name.
LastMessageIsMine ==
  /\ Chan \in DOMAIN chat_memories
  /\ chat_memories[Chan] # << >>
  /\ chat_memories[Chan][Len(chat_memories[Chan])].author =
       (IF me_user # None THEN DisplayName(me_user[1]) ELSE << "Ian" >>)

\* The loop without the self-talk guard of lines 77-85.
TickVerdict_NoGuard ==
  IF target_channel_id = None THEN "notarget"
  ELSE IF ~(now > next_activity_trigger) THEN "early"
  ELSE IF Locked(processing_lock) THEN "busy"
  ELSE "acquire"

\* What one pass of the loop does after its sleep: lines 71-101.
TickVerdict ==
  IF target_channel_id = None THEN "notarget"
  ELSE IF ~(now > next_activity_trigger) THEN "early"
  ELSE IF LastMessageIsMine THEN "selftalk"
  ELSE IF Locked(processing_lock) THEN "busy"
  ELSE "acquire"

\* The loop wakes from asyncio.sleep(30) and runs one pass up to its next
\* suspension.
ProactivityTick(channel_found, trigger) ==
  /\ tasks[LoopTask].pc = "sleep"
  /\ LET verdict == TickVerdict IN
     CASE verdict \in {"notarget", "early"} ->
            UNCHANGED << tasks, processing_lock, next_activity_trigger,
                         chat_memories, channel_mentions_pending, event >>
       [] verdict \in {"selftalk", "busy"} ->
            /\ next_activity_trigger' = trigger
            /\ event' = Ev("tick", LoopTask, verdict)
            /\ UNCHANGED << tasks, processing_lock, chat_memories,
                            channel_mentions_pending >>
       [] OTHER ->
            /\ event' = Ev("tick", LoopTask, verdict)
            /\ IF CanAcquireNow(processing_lock)
               THEN BeginProactive(tasks, LockAcquired(processing_lock),
                                   channel_found, trigger)
               ELSE /\ tasks' = [tasks EXCEPT ![LoopTask].pc = "lock"]
                    /\ processing_lock' = LockQueued(processing_lock, LoopTask)
                    /\ UNCHANGED << chat_memories, channel_mentions_pending,
                                    next_activity_trigger >>
  /\ UNCHANGED << now, bot_nick, target_channel_id, me_user, known_users,
                  channel_debounces, on_ready_pc, last_delivery >>

\* ------------------------------------------------------------------------
\* The coordinator's specification
\* ------------------------------------------------------------------------

Next ==
  \/ AdvanceTime /\ UNCHANGED brainVars
  \/ \E configured \in BOOLEAN : OnReady(configured) /\ UNCHANGED brainVars
  \/ \E fetched \in {None} \cup {Some(h) : h \in FetchedHistories} :
       PreloadDone(fetched) /\ UNCHANGED brainVars
  \/ OnMessageOwn /\ UNCHANGED brainVars
  \/ OnMessageElsewhere /\ UNCHANGED brainVars
  \/ \E msg \in DmMessages : OnMessageDm(msg) /\ UNCHANGED brainVars
  \/ \E msg \in ChannelMessages, trigger \in NextTriggers :
       OnMessageChannel(msg, trigger) /\ UNCHANGED brainVars
  \/ \E t \in Handlers : ReadingDelayElapsed(t) /\ UNCHANGED brainVars
  \/ \E channel_found \in BOOLEAN, trigger \in NextTriggers :
       LockGranted(channel_found, trigger) /\ UNCHANGED brainVars
  \/ \E t \in DOMAIN tasks, outcome \in ProviderOutcomes :
       ProviderReturns(t, outcome) /\ UNCHANGED brainVars
  \/ \E t \in DOMAIN tasks, delivered \in BOOLEAN, trigger \in NextTriggers :
       SendLine(t, delivered, trigger) /\ UNCHANGED brainVars
  \/ \E channel_found \in BOOLEAN, trigger \in NextTriggers :
       ProactivityTick(channel_found, trigger) /\ UNCHANGED brainVars

Spec == Init /\ [][Next]_vars

\* The coordinator with the scheduling asyncio gives a cycle: the thread of
\* the provider call returns (the claim's assumption), and the sleeps and the
\* gateway calls of the send loop end, so a cycle that can take a step takes one.
ProviderReturnsSome ==
  \E t \in DOMAIN tasks, outcome \in ProviderOutcomes :
    ProviderReturns(t, outcome) /\ UNCHANGED brainVars

SendLineSome ==
  \E t \in DOMAIN tasks, delivered \in BOOLEAN, trigger \in NextTriggers :
    SendLine(t, delivered, trigger) /\ UNCHANGED brainVars

\* The number of gateway messages handled in one behaviour of SpecLive.
MaxLiveMsgs == 1

NextLive == Next /\ Cardinality(DOMAIN tasks') - 1 <= MaxLiveMsgs

SpecLive ==
  /\ Init /\ [][NextLive]_vars
  /\ WF_vars(ProviderReturnsSome) /\ WF_vars(SendLineSome)

\* ------------------------------------------------------------------------
\* The decision functions on their own: one call, over every provider text
\* of at most MaxTextLen tokens
\* ------------------------------------------------------------------------

MaxTextLen == 3

\* "ldquo" stands for the curly quote character U+201C.
TextTokens ==
  { "<think>", "</think>", "[SK", "IP]", "\"", "ldquo", "\n", " ", "oi" }

RECURSIVE Texts(_)
Texts(n) ==
  IF n = 0 THEN { << >> }
  ELSE LET shorter == Texts(n - 1)
       IN shorter \cup {Append(s, t) : s \in shorter, t \in TextTokens}

\* Provider texts made of whole lines: at most MaxLines of BrainLines.
MaxLines == 4

BrainLines ==
  { << "Bob", ":", " ", "kkk" >>,
    << "bob", " ", ":", "fds" >>,
    << "Ian", ":", " ", "oi" >>,
    << "slk", " ", "que", " ", "isso" >>,
    << "slk", " ", "mid" >>,
    << "SLK", " ", "mid" >> }

\* "\n".join(lines)
RECURSIVE JoinLines(_)
JoinLines(ls) ==
  IF ls = << >> THEN << >>
  ELSE IF Len(ls) = 1 THEN ls[1]
  ELSE ls[1] \o << "\n" >> \o JoinLines(Tail(ls))

RECURSIVE LineLists(_)
LineLists(n) ==
  IF n = 0 THEN { << >> }
  ELSE LET shorter == LineLists(n - 1)
       IN shorter \cup {Append(ls, l) : ls \in shorter, l \in BrainLines}

BrainOutcomes ==
  {ProviderError, ProviderUnconfigured}
    \cup {ProviderText(s) : s \in Texts(MaxTextLen)}
    \cup {ProviderText(JoinLines(ls)) : ls \in LineLists(MaxLines)}

\* The histories the decision functions are called with.
BrainHistories ==
  { << >>,
    << Entry(<< "Ana" >>, << "oi" >>, [from |-> "msg", task |-> 1]) >>,
    << Entry(<< "Ana" >>, << "oi" >>, [from |-> "msg", task |-> 1]),
       Entry(<< "Bob" >>, << "kkk" >>, [from |-> "msg", task |-> 2]) >> }

\* One call of decide_and_respond.
CallReactive(chat_history, is_direct, outcome) ==
  /\ b_pc = "idle"
  /\ b_pc' = "reactive"
  /\ b_history' = chat_history
  /\ b_outcome' = outcome
  /\ b_result' = decide_and_respond(chat_history, << "Ian" >>, is_direct,
                                    outcome)
  /\ UNCHANGED coordVars

\* One call of decide_proactive_message.
CallProactive(chat_history, outcome) ==
  /\ b_pc = "idle"
  /\ b_pc' = "proactive"
  /\ b_history' = chat_history
  /\ b_outcome' = outcome
  /\ b_result' = Some(decide_proactive_message(chat_history, << "Ian" >>,
                                               outcome))
  /\ UNCHANGED coordVars

BrainNext ==
  \/ \E h \in BrainHistories, is_direct \in BOOLEAN, outcome \in BrainOutcomes :
       CallReactive(h, is_direct, outcome)
  \/ \E h \in BrainHistories, outcome \in BrainOutcomes :
       CallProactive(h, outcome)

SpecBrain == Init /\ [][BrainNext]_vars

\* ------------------------------------------------------------------------
\* The memory of the tracked channel on its own: the three writes of the
\* program (preload_history, on_message, _send_response_package), as often
\* as it takes to fill the deque
\* ------------------------------------------------------------------------

\* What channel.history(limit=HISTORY_LIMIT) can yield: nothing, the two
\* messages of FetchedHistories, or HISTORY_LIMIT messages.
MemoryFetched ==
  { << >> } \cup FetchedHistories
    \cup { [i \in 1..HISTORY_LIMIT |->
              IF i % 2 = 1
              THEN [author |-> BotMember, content |-> << "fds" >>]
              ELSE [author |-> UAna, content |-> << "oi" >>]] }

\* preload_history, lines 186-191.
MemoryPreload(fetched) ==
  /\ chat_memories' =
       DictSet(chat_memories, Chan, PreloadEntries(<< >>, Reversed(fetched)))
  /\ event' = Ev("preload", LoopTask, "")

\* on_message, lines 216-220.
MemoryInbound(msg) ==
  /\ chat_memories' =
       DictSet(chat_memories, Chan,
               DequeAppend(DictGet(chat_memories, Chan, << >>),
                           Entry(RealName(msg.author),
                                 CleanContent(msg.content),
                                 [from |-> "msg", task |-> 1])))
  /\ event' = Ev("append", 1, "")

\* _send_response_package, line 291.
MemoryOwnSend(line) ==
  /\ Chan \in DOMAIN chat_memories
  /\ chat_memories' =
       [chat_memories EXCEPT ![Chan] =
          DequeAppend(@, Entry(GuildDisplayName, line,
                               [from |-> "bot", task |-> 1]))]
  /\ event' = Ev("append", 1, "")

MemoryUnchanged ==
  UNCHANGED << now, bot_nick, target_channel_id, me_user, processing_lock,
               known_users, channel_debounces, channel_mentions_pending,
               next_activity_trigger, on_ready_pc, tasks, last_delivery,
               brainVars >>

MemoryNext ==
  \/ \E fetched \in MemoryFetched : MemoryPreload(fetched) /\ MemoryUnchanged
  \/ \E msg \in {m \in ChannelMessages : ~IsDirect(m)} :
       MemoryInbound(msg) /\ MemoryUnchanged
  \/ MemoryOwnSend(<< "fds" >>) /\ MemoryUnchanged

SpecMemory == Init /\ [][MemoryNext]_vars

\* The coordinator in a guild where the bot's member has a nick: its
\* guild.me.display_name is the nick, its account's display_name is not.
InitNick == CoordInit(Some(<< "Kirg" >>)) /\ BrainIdle

SpecNick == InitNick /\ [][Next]_vars

\* ------------------------------------------------------------------------
\* _format_mentions on its own: the identity map is built by _remember_user
\* from the users below, then one text is resolved.  A name is a sequence of
\* tokens, so "ianzinho" is << "ian", "zinho" >> and holds the alias "ian";
\* the mention of these users is written out as "<@", id, ">".
\* ------------------------------------------------------------------------
UIan == [id |-> "3", name |-> << "ian" >>, global_name |-> None,
         nick |-> None]

UIanzinho == [id |-> "4", name |-> << "ian", "zinho" >>,
              global_name |-> None, nick |-> None]

UTres == [id |-> "5", name |-> << "tres" >>, global_name |-> Some(<< "3" >>),
          nick |-> None]

MentionUsers == {UIan, UIanzinho, UTres}

MaxMentionLen == 3

MentionTokens == {"oi", " ", "ian", "Ian", "zinho", "3"}

MentionTexts == UNION {[1..n -> MentionTokens] : n \in 0..MaxMentionLen}

\* _remember_user(user) for a user not seen before.
MentionRemember(user) ==
  /\ b_pc = "idle"
  /\ ~\E i \in 1..Len(known_users) : known_users[i].mention = Mention(user)
  /\ known_users' = RememberUser(known_users, user)
  /\ UNCHANGED << now, bot_nick, target_channel_id, me_user, chat_memories,
                  processing_lock, channel_debounces, channel_mentions_pending,
                  next_activity_trigger, on_ready_pc, tasks, event,
                  last_delivery, brainVars >>

\* One call of _format_mentions(text): b_outcome holds the text, b_result
\* what the call returns.
MentionFormat(text) ==
  /\ b_pc = "idle"
  /\ b_pc' = "mentions"
  /\ b_history' = << >>
  /\ b_outcome' = ProviderText(text)
  /\ b_result' = Some(FormatMentions(text))
  /\ UNCHANGED coordVars

MentionNext ==
  \/ \E user \in MentionUsers : MentionRemember(user)
  \/ \E text \in MentionTexts : MentionFormat(text)

SpecMentions == Init /\ [][MentionNext]_vars

\* ------------------------------------------------------------------------
\* Properties
\* ------------------------------------------------------------------------

\* A step in which a message of another user arrives in the tracked channel.
InboundArrives ==
  event'.name = "message" /\ event'.note \in {"accepted", "ignored"}

\* A step in which the proactivity loop runs a pass past its deadline checks.
LoopTicks == event'.name = "tick"

\* A provider outcome that leaves decide_and_respond nothing to say: the call
\* fails, or the text is empty once stripped and without its think spans.
NothingGenerated(outcome) ==
  \/ outcome.kind # "text"
  \/ Strip(StripThink(Strip(outcome.text))) = << >>

\* A provider outcome with no usable line for decide_proactive_message.
NothingUsable(outcome) ==
  \/ NothingGenerated(outcome)
  \/ Contains(outcome.text, SkipMarker)
  \/ Strip(StripQuotes(Strip(StripThink(Strip(outcome.text))))) = << >>

\* C1: at most one decision-and-send cycle is running; a task that is in
\* the provider call or in its send loop holds processing_lock; and a send
\* loop past its first line finds its own previous line as the latest
\* delivery: no line of another send loop came in between.
C1_OneCycleAtATime ==
  /\ Cardinality({t \in DOMAIN tasks : InCycle(tasks[t])}) <= 1
  /\ \A t \in DOMAIN tasks : InCycle(tasks[t]) => Locked(processing_lock)
  /\ \A t \in DOMAIN tasks :
       tasks[t].pc = "sending" /\ tasks[t].i > 1
         => last_delivery = [task |-> t, i |-> tasks[t].i - 1]

\* A send loop is past its first line while another task waits for the lock.
C1_Witness ==
  \E t, u \in DOMAIN tasks :
    /\ tasks[t].pc = "sending" /\ tasks[t].i = 2
    /\ tasks[u].pc = "lock"
    /\ processing_lock.waiters = << u >>

\* C2: a handler of the tracked channel during whose reading delay another
\* message of that channel arrived goes on neither to the lock nor to the
\* decision: when its delay elapses it ends.
C2_LaterEventAborts ==
  [][\A t \in Handlers :
       tasks[t].pc = "reading" /\ tasks[t].later_inbound
         => tasks'[t].pc \in {"reading", "done"}]_vars

\* C3: every message of another user that arrives in the tracked channel is
\* appended to the channel's memory in the step in which it arrives, whether
\* processing_lock is held or not.
C3_InboundAppended ==
  [][InboundArrives =>
       /\ Chan \in DOMAIN chat_memories'
       /\ Len(chat_memories'[Chan])
            = Len(DictGet(chat_memories, Chan, << >>)) + 1
       /\ chat_memories'[Chan][Len(chat_memories'[Chan])].src.from = "msg"]_vars

\* C4: every message of another user that arrives in the tracked channel
\* pushes next_activity_trigger forward to a deadline drawn at that moment.
C4_InboundResetsDeadline ==
  [][InboundArrives => next_activity_trigger' \in NextTriggers]_vars

\* C5: a handler whose reading delay elapses while processing_lock is locked
\* ends there: it is not queued on the lock, the lock, the memories and the
\* deliveries are as before, and a handler that has ended never runs again.
C5_BusyAborts ==
  [][\A t \in Handlers :
       /\ ( /\ tasks[t].kind = "chan"
            /\ tasks[t].pc = "reading"
            /\ tasks'[t].pc # "reading"
            /\ Locked(processing_lock) )
          => /\ tasks'[t].pc = "done"
             /\ processing_lock' = processing_lock
             /\ chat_memories' = chat_memories
             /\ last_delivery' = last_delivery
       /\ tasks[t].pc = "done" => tasks'[t] = tasks[t]]_vars

\* A handler found the lock busy after its reading delay, with its token
\* still the latest.
C5_Witness ==
  \E t \in Handlers : tasks[t].pc = "done" /\ tasks[t].path = "busy"

\* C6: a message of the tracked channel that mentions the bot or replies to
\* it leaves the channel's pending-direct flag set; and a reactive cycle that
\* takes the lock runs in direct mode exactly when the flag was set, and
\* clears it.
C6_DirectFlag ==
  [][/\ InboundArrives /\ event'.direct
          => DictGet(channel_mentions_pending', Chan, FALSE)
     /\ \A t \in Handlers :
          ( /\ tasks[t].kind = "chan"
            /\ ~InCycle(tasks[t])
            /\ InCycle(tasks'[t]) )
          => /\ tasks'[t].is_direct
                  = DictGet(channel_mentions_pending, Chan, FALSE)
             /\ ~DictGet(channel_mentions_pending', Chan, FALSE)]_vars

\* C7: a pass of the proactivity loop that finds the deadline passed and the
\* last entry of the tracked memory under the bot's name draws a new deadline
\* and does nothing else: the lock, the tasks (no decision, no send loop),
\* the memories and the deliveries are as before.
C7_SelfTalkGuard ==
  [][( /\ LoopTicks
       /\ now > next_activity_trigger
       /\ LastMessageIsMine )
     => /\ next_activity_trigger' \in NextTriggers
        /\ processing_lock' = processing_lock
        /\ tasks' = tasks
        /\ chat_memories' = chat_memories
        /\ last_delivery' = last_delivery]_vars

\* The loop has just run a pass that the self-talk guard cut short, with the
\* lock free.
C7_Witness ==
  /\ event.name = "tick" /\ event.note = "selftalk"
  /\ CanAcquireNow(processing_lock)
  /\ LastMessageIsMine

\* C8: a pass of the loop past the deadline that runs no cycle draws a new
\* deadline; the loop enters a cycle only from a pass that finds the deadline
\* passed and the lock free; and the loop never waits for the lock.
C8_TickNeverWaits ==
  [][/\ ( /\ LoopTicks
          /\ now > next_activity_trigger
          /\ tasks'[LoopTask].pc = "sleep" )
        => next_activity_trigger' \in NextTriggers
     /\ ( /\ tasks[LoopTask].pc = "sleep"
          /\ InCycle(tasks'[LoopTask]) )
        => now > next_activity_trigger /\ ~Locked(processing_lock)
     /\ tasks'[LoopTask].pc # "lock"]_vars

\* C9: decide_proactive_message answers a non-empty list of non-empty lines,
\* and the one fallback line when the provider's outcome has no usable line.
C9_ProactiveNeverEmpty ==
  b_pc = "proactive" =>
    LET lines == b_result[1] IN
    /\ lines # << >>
    /\ \A i \in 1..Len(lines) : lines[i] # << >>
    /\ NothingUsable(b_outcome) => lines = << FALLBACK_LINE >>

\* C10: when the provider call of a reactive or DM cycle fails or leaves
\* nothing to say, the cycle ends with a none decision; and a cycle that
\* ends at its decision releases the lock and leaves the memories and the
\* deliveries as they were: nothing is sent, nothing is recorded.
C10_NoneDecision ==
  [][\A t \in Handlers :
       /\ ( /\ tasks[t].pc = "deciding"
            /\ event'.name = "decided" /\ event'.task = t
            /\ NothingGenerated(event'.out) )
          => tasks'[t].pc = "done" /\ tasks'[t].path = "none"
       /\ ( /\ tasks[t].pc = "deciding"
            /\ tasks'[t].pc = "done" )
          => /\ tasks'[t].path = "none"
             /\ ~Locked(processing_lock')
             /\ chat_memories' = chat_memories
             /\ last_delivery' = NoDelivery]_vars

\* The provider call of a handler's cycle has just failed.
C10_Witness ==
  /\ event.name = "decided" /\ event.note = "none"
  /\ event.task \in Handlers
  /\ event.out.kind = "error"
  /\ tasks[event.task].pc = "done"

\* A step in which task t runs one round of its send loop.
SendsLine(t) ==
  tasks[t].pc = "sending" /\ event'.name = "send" /\ event'.task = t

\* C11: a round of a send loop attempts line i and goes on to line i + 1,
\* whether the delivery succeeded or failed, and ends the cycle only after
\* the last line; a delivery that fails leaves every memory as it was.
C11_SendLoopInOrder ==
  [][\A t \in DOMAIN tasks :
       SendsLine(t) =>
         /\ IF tasks[t].i < Len(tasks[t].response)
            THEN /\ tasks'[t].pc = "sending"
                 /\ tasks'[t].i = tasks[t].i + 1
                 /\ tasks'[t].response = tasks[t].response
                 /\ Locked(processing_lock')
            ELSE tasks'[t].pc \in {"done", "sleep"}
         /\ event'.note = "failed" => chat_memories' = chat_memories]_vars

\* The delivery of the first line of two has just failed, with entries
\* already in that memory, and the loop is at its second line.
C11_Witness ==
  /\ event.name = "send" /\ event.note = "failed"
  /\ tasks[event.task].pc = "sending" /\ tasks[event.task].i = 2
  /\ tasks[event.task].memory_id \in DOMAIN chat_memories
  /\ chat_memories[tasks[event.task].memory_id] # << >>

\* C12: every line a send loop delivers is recorded: after the round the
\* conversation's memory exists and its last entry is (my_name, line), also
\* when the conversation had no memory before the send.
C12_DeliveredLineRecorded ==
  [][\A t \in DOMAIN tasks :
       SendsLine(t) /\ event'.note = "ok" =>
         LET memory_id == tasks[t].memory_id IN
         /\ memory_id \in DOMAIN chat_memories'
         /\ chat_memories'[memory_id] # << >>
         /\ LET last == chat_memories'[memory_id][Len(chat_memories'[memory_id])]
            IN /\ last.author = tasks[t].my_name
               /\ last.content = tasks[t].response[tasks[t].i]]_vars

\* C13: no memory ever holds more than HISTORY_LIMIT entries; an append to a
\* full memory evicts the oldest entry, and the entries that stay keep their
\* order, followed by the new one.
C13_MemoryBounded ==
  [][\A k \in DOMAIN chat_memories' :
       LET old == DictGet(chat_memories, k, << >>)
           new == chat_memories'[k]
           evicted == Len(old) + 1 - Len(new)
       IN /\ Len(new) <= HISTORY_LIMIT
          /\ event'.name = "append" =>
               /\ Len(new) = (IF Len(old) < HISTORY_LIMIT
                              THEN Len(old) + 1 ELSE HISTORY_LIMIT)
               /\ \A i \in 1..(Len(new) - 1) : new[i] = old[i + evicted]]_vars

\* The memory is full and an append has evicted the oldest of HISTORY_LIMIT
\* preloaded entries.
C13_Witness ==
  /\ Chan \in DOMAIN chat_memories
  /\ Len(chat_memories[Chan]) = HISTORY_LIMIT
  /\ chat_memories[Chan][HISTORY_LIMIT - 1].src.from = "preload"
  /\ chat_memories[Chan][HISTORY_LIMIT].src.from # "preload"

\* C14: a task is in its cycle (history copy, provider call, send loop) only
\* with the lock held; the lock is held only while some task is in its
\* cycle; and a held lock always becomes free again.
C14_LockReleased ==
  /\ [](\A t \in DOMAIN tasks : InCycle(tasks[t]) => Locked(processing_lock))
  /\ [](Locked(processing_lock) => \E t \in DOMAIN tasks : InCycle(tasks[t]))
  /\ (Locked(processing_lock) ~> ~Locked(processing_lock))

\* A cycle has ended on a delivery that failed, and the lock is free.
C14_Witness ==
  /\ event.name = "send" /\ event.note = "failed"
  /\ ~InCycle(tasks[event.task])
  /\ ~Locked(processing_lock)

\* The lines of a provider text as decide_and_respond splits them.
GeneratedLines(outcome) ==
  SplitOn(Strip(StripThink(Strip(outcome.text))), "\n")

\* A line "name: content" whose name is, whatever its case, a speaker of the
\* history other than the bot.
IsOtherTurn(line, chat_history, my_name) ==
  LET c == FirstIndex(Strip(line), ":") IN
  /\ c # 0
  /\ LET name_part == Lower(Strip(SubSeq(Strip(line), 1, c - 1)))
     IN /\ name_part # Lower(my_name)
        /\ \E u \in ActiveUsers(chat_history) : name_part = Lower(u)

\* The history and the provider text of the example: Ana and Bob have
\* spoken, the provider answers "Bob: kkk / slk que isso / slk mid".
AnaBobHistory ==
  << Entry(<< "Ana" >>, << "oi" >>, [from |-> "msg", task |-> 1]),
     Entry(<< "Bob" >>, << "kkk" >>, [from |-> "msg", task |-> 2]) >>

BobTurnText ==
  JoinLines(<< << "Bob", ":", " ", "kkk" >>,
               << "slk", " ", "que", " ", "isso" >>,
               << "slk", " ", "mid" >> >>)

\* C15: the lines of the provider text that are another participant's turn
\* contribute nothing: the decision is the decision for the text without
\* them, and no line of it is one of them; the example gives its two lines.
C15_OtherTurnsDropped ==
  b_pc = "reactive" /\ b_outcome.kind = "text" =>
    LET lines == GeneratedLines(b_outcome)
        others == SelectSeq(lines,
                            LAMBDA l : ~IsOtherTurn(l, b_history, << "Ian" >>))
    IN /\ b_result = decide_and_respond(b_history, << "Ian" >>, FALSE,
                                        ProviderText(JoinLines(others)))
       /\ b_result # None =>
            \A i \in 1..Len(b_result[1]) :
              ~IsOtherTurn(b_result[1][i], b_history, << "Ian" >>)
       /\ (b_history = AnaBobHistory /\ b_outcome.text = BobTurnText)
            => b_result = << << << "slk", " ", "que", " ", "isso" >>,
                                  << "slk", " ", "mid" >> >> >>

\* decide_and_respond has answered the example.
C15_Witness ==
  /\ b_pc = "reactive"
  /\ b_history = AnaBobHistory
  /\ b_outcome = ProviderText(BobTurnText)
  /\ b_result # None

\* C16: a provider text that contains the skip marker once its think spans
\* are stripped gives None, and no line of a decision contains the skip
\* marker.
C16_SkipMarkerSilences ==
  b_pc = "reactive" /\ b_outcome.kind = "text" =>
    /\ Contains(Strip(StripThink(Strip(b_outcome.text))), SkipMarker)
         => b_result = None
    /\ b_result # None =>
         \A i \in 1..Len(b_result[1]) : ~Contains(b_result[1][i], SkipMarker)

\* The lines decide_and_respond accepts from a provider text, all of them.
AcceptedLines(chat_history, outcome) ==
  IF outcome.kind # "text"
     \/ Contains(Strip(StripThink(Strip(outcome.text))), SkipMarker)
  THEN << >>
  ELSE AcceptLines(<< >>, GeneratedLines(outcome), ActiveUsers(chat_history),
                   << "Ian" >>, RecentContents(chat_history))

\* C17: a decision is None exactly when no line is accepted; otherwise it is
\* the first three accepted lines in their order: one to three lines, none
\* empty, no two equal when lowercased.
C17_OutputShape ==
  b_pc = "reactive" =>
    LET accepted == AcceptedLines(b_history, b_outcome) IN
    /\ b_result = None <=> accepted = << >>
    /\ b_result # None =>
         LET lines == b_result[1] IN
         /\ Len(lines) \in 1..3
         /\ \A i \in 1..Len(lines) : lines[i] # << >> /\ lines[i] = accepted[i]
         /\ Len(accepted) <= 3 => Len(lines) = Len(accepted)
         /\ \A i, j \in 1..Len(lines) :
              i # j => Lower(lines[i]) # Lower(lines[j])

\* Four lines were accepted and the decision is the first three of them.
C17_Witness ==
  /\ b_pc = "reactive"
  /\ Len(AcceptedLines(b_history, b_outcome)) = 4
  /\ b_result # None
  /\ Len(b_result[1]) = 3

\* A line that repeats an accepted line in another case was left out.
C17_WitnessDuplicate ==
  /\ b_pc = "reactive"
  /\ b_result # None
  /\ Len(b_result[1]) = 2
  /\ Len(GeneratedLines(b_outcome)) = 3
  /\ Lower(GeneratedLines(b_outcome)[2]) = Lower(GeneratedLines(b_outcome)[3])
  /\ GeneratedLines(b_outcome)[2] # GeneratedLines(b_outcome)[3]

\* C18: no line of a decision contains a straight or a curly quote character.
C18_NoQuotesLeft ==
  b_pc = "reactive" /\ b_result # None =>
    \A i \in 1..Len(b_result[1]) :
      \A k \in 1..Len(b_result[1][i]) :
        b_result[1][i][k] \notin {"\"", "'", "ldquo"}

\* The alias (a key of known_users) that occurs in text at position i.
AliasAt(text, i, k) ==
  /\ i + Len(known_users[k].alias) - 1 <= Len(text)
  /\ Lower(SubSeq(text, i, i + Len(known_users[k].alias) - 1))
       = known_users[k].alias

NoAliasIn(text) ==
  \A i \in 1..Len(text), k \in 1..Len(known_users) : ~AliasAt(text, i, k)

\* The text with the alias occurrence at i replaced by the alias's mention.
MentionPutAt(text, i, k) ==
  SubSeq(text, 1, i - 1) \o known_users[k].mention
    \o SubSeq(text, i + Len(known_users[k].alias), Len(text))

\* C19 (no alias): a text in which no known alias occurs is returned as it is.
C19_NoAliasUnchanged ==
  b_pc = "mentions" /\ NoAliasIn(b_outcome.text) =>
    b_result = Some(b_outcome.text)

\* C19 (the example): with ian and ianzinho known, "oi ianzinho" gives
\* "oi" and the mention of ianzinho.
C19_Example ==
  /\ b_pc = "mentions"
  /\ b_outcome.text = << "oi", " ", "ian", "zinho" >>
  /\ \E k \in 1..Len(known_users) : known_users[k].alias = << "ian" >>
  /\ \E k \in 1..Len(known_users) : known_users[k].alias = << "ian", "zinho" >>
  => b_result = Some(<< "oi", " " >> \o Mention(UIanzinho))

\* C19: in the result of mention resolution, the occurrence of a known alias
\* is replaced by that alias's own mention (an alias that holds every other
\* alias occurrence of the text: the rest of the text is returned as it is),
\* and a text in which no known alias occurs is returned unchanged.
C19_OwnMention ==
  b_pc = "mentions" =>
    /\ NoAliasIn(b_outcome.text) => b_result = Some(b_outcome.text)
    /\ \A i \in 1..Len(b_outcome.text), k \in 1..Len(known_users) :
         /\ AliasAt(b_outcome.text, i, k)
         /\ \A j \in 1..Len(b_outcome.text), m \in 1..Len(known_users) :
              AliasAt(b_outcome.text, j, m) =>
                /\ i <= j
                /\ j + Len(known_users[m].alias) <= i + Len(known_users[k].alias)
         => b_result = Some(MentionPutAt(b_outcome.text, i, k))

\* The last entry of the tracked memory was appended by the bot's send loop.
LastEntryFromSendLoop ==
  /\ Chan \in DOMAIN chat_memories
  /\ chat_memories[Chan] # << >>
  /\ chat_memories[Chan][Len(chat_memories[Chan])].src.from = "bot"

\* C20: a pass of the proactivity loop past the deadline, with the last entry
\* of the tracked memory appended by the bot's own send loop, runs no
\* proactive cycle: the tasks and the lock are as before.
C20_OwnLineBlocksTick ==
  [][( /\ LoopTicks
       /\ now > next_activity_trigger
       /\ LastEntryFromSendLoop )
     => /\ tasks' = tasks
        /\ processing_lock' = processing_lock]_vars

\* Lines 286-289: the round of task t's send loop delivers its line with
\* reply_to.reply(..., mention_author=True) and not with channel.send.
DeliversAsReply(t) == tasks[t].i = 1 /\ tasks[t].reply_to

\* C21: when a send loop of the tracked channel delivers its first line as a
\* reply, the message it replies to mentions the bot or replies to it; the
\* lines after the first, and every line of a proactive cycle, are plain
\* sends.
C21_ReplyTargetIsDirect ==
  [][\A t \in DOMAIN tasks :
       SendsLine(t) /\ event'.note = "ok" =>
         /\ tasks[t].kind = "chan" /\ DeliversAsReply(t)
              => IsDirect(tasks[t].msg)
         /\ tasks[t].i > 1 \/ tasks[t].kind = "loop"
              => ~DeliversAsReply(t)]_vars

\* C22: a conversation's memory, once created, is never replaced or
\* discarded: a step leaves it as it is or appends one entry to it (dropping
\* the oldest entry on overflow), so an inbound message appended while the
\* preload waits for the fetched history is still there when the preload
\* has finished.
C22_MemoryNeverReplaced ==
  [][\A k \in DOMAIN chat_memories :
       /\ k \in DOMAIN chat_memories'
       /\ LET old == chat_memories[k]
              new == chat_memories'[k]
          IN \/ new = old
             \/ /\ new # << >>
                /\ new = DequeAppend(old, new[Len(new)])]_vars

====
